---- MODULE Spec2Model ----
(***************************************************************************)
(* Model of the LinkedIn connection engine of src/main.py                  *)
(* (class LinkedInAutomation): the quota ledger, the connection-state      *)
(* classifier, the request workflow of send_connection_request, the batch  *)
(* loop of process_profiles_from_csv and the profile-URL normalisation.    *)
(*                                                                         *)
(* Strings that the code takes apart (profile URLs) are sequences of       *)
(* tokens; a token is a maximal piece of text the code never looks into.   *)
(* The browser is not controlled by the engine: every observation of the   *)
(* page (visibility of a control, the current URL, a driver call raising)  *)
(* is an input chosen anew at the step that makes the observation.         *)
(***************************************************************************)
EXTENDS Integers, Sequences, FiniteSets, TLC

\* ------------------------------------------------------------------ bounds
MaxUrlLen == 5        \* longest input URL, in tokens
MaxRows == 3          \* longest CSV file, in rows
MaxLimit == 2         \* largest daily_limit tried
MaxStored == 3        \* largest count found in request_count.csv at startup
MaxDay == 2           \* calendar days a run may span

\* --------------------------------------------------------- URL as tokens
\* "https://", "www.", "linkedin.com", "/in/", "?", "#" are the pieces the
\* code tests for; " " is a run of whitespace; "a" is any other text.
Tokens == {"https://", "www.", "linkedin.com", "/in/", "?", "#", " ", "a"}

RECURSIVE SeqsUpTo(_)
SeqsUpTo(n) ==
    IF n = 0 THEN {<<>>}
    ELSE LET shorter == SeqsUpTo(n - 1)
         IN  shorter \cup {Append(s, t) : s \in {x \in shorter : Len(x) = n - 1}, t \in Tokens}

Urls == SeqsUpTo(MaxUrlLen)

\* str.startswith(p)
StartsWith(s, p) == Len(s) >= Len(p) /\ SubSeq(s, 1, Len(p)) = p

\* tok in s
Contains(s, tok) == \E i \in 1..Len(s) : s[i] = tok

\* index of the first occurrence of tok in s, Len(s)+1 when there is none
FirstIndex(s, tok) ==
    IF Contains(s, tok) THEN CHOOSE i \in 1..Len(s) : s[i] = tok /\ \A j \in 1..(i - 1) : s[j] # tok
    ELSE Len(s) + 1

\* s.split(tok)[0]
SplitHead(s, tok) == SubSeq(s, 1, FirstIndex(s, tok) - 1)

\* everything after the first occurrence of tok
AfterFirst(s, tok) == SubSeq(s, FirstIndex(s, tok) + 1, Len(s))

\* s.split(tok)[1], for s that contains tok
SplitSecond(s, tok) == SplitHead(AfterFirst(s, tok), tok)

\* str.strip()
RECURSIVE LStrip(_)
LStrip(s) == IF s # <<>> /\ Head(s) = " " THEN LStrip(Tail(s)) ELSE s

RECURSIVE RStrip(_)
RStrip(s) == IF s # <<>> /\ s[Len(s)] = " " THEN RStrip(SubSeq(s, 1, Len(s) - 1)) ELSE s

Strip(s) == RStrip(LStrip(s))

CanonicalPrefix == <<"https://", "www.", "linkedin.com", "/in/">>
ShortPrefix == <<"https://", "linkedin.com", "/in/">>

\* the guard of line 2281
HasProfilePrefix(s) == StartsWith(s, CanonicalPrefix) \/ StartsWith(s, ShortPrefix)

\* lines 2273-2293: the URL the loop goes on with, or a skipped row
NormalizeUrl(cell) ==
    IF cell = <<>> THEN [valid |-> FALSE, url |-> <<>>]
    ELSE LET profile_url == Strip(cell)
         IN  IF HasProfilePrefix(profile_url) THEN [valid |-> TRUE, url |-> profile_url]
             ELSE IF Contains(profile_url, "linkedin.com") /\ Contains(profile_url, "/in/")
                  THEN [valid |-> TRUE,
                        url |-> CanonicalPrefix \o
                                SplitHead(SplitHead(SplitSecond(profile_url, "/in/"), "?"), "#")]
                  ELSE [valid |-> FALSE, url |-> <<>>]

\* lines 1864-1868: the 'profile' field taken from a link of a result card
CleanHref(href) ==
    IF href # <<>> /\ Contains(href, "/in/")
    THEN [valid |-> TRUE, url |-> SplitHead(href, "?")]
    ELSE [valid |-> FALSE, url |-> <<>>]

\* ------------------------------------------------- connection classifier
\* What the browser shows while check_connection_status runs.
PageFields == {"navOk", "onProfile", "connectVis", "pendingVis", "firstVis", "degreeVis",
               "moreVis", "moreClickOk", "dropConnect", "bodyClickOk", "bodyClick2Ok", "followVis"}
Pages == [PageFields -> BOOLEAN]

Outcome(st, open) == [status |-> st, menu_open |-> open]

\* lines 594-621: the More menu is opened, and closed by a click on the body
MenuOpened(p) == p.moreVis /\ p.moreClickOk
MenuLeftOpen(p) == MenuOpened(p) /\ ~p.bodyClickOk /\ ~p.bodyClick2Ok

\* the classifier looking for the pending signal before the connect control
check_pending_first(p) ==
    IF ~p.navOk THEN Outcome("unknown", FALSE)
    ELSE IF ~p.onProfile THEN Outcome("unknown", FALSE)
    ELSE IF p.pendingVis THEN Outcome("pending", FALSE)
    ELSE IF p.connectVis THEN Outcome("not_connected", FALSE)
    ELSE IF p.firstVis THEN Outcome("connected", FALSE)
    ELSE IF p.degreeVis THEN Outcome("not_connected", FALSE)
    ELSE IF MenuOpened(p) /\ p.dropConnect /\ p.bodyClickOk THEN Outcome("not_connected", FALSE)
    ELSE IF p.followVis THEN Outcome("not_connected", MenuLeftOpen(p))
    ELSE Outcome("unknown", MenuLeftOpen(p))

\* lines 500-635
check_connection_status(p) ==
    IF ~p.navOk THEN Outcome("unknown", FALSE)
    ELSE IF ~p.onProfile THEN Outcome("unknown", FALSE)
    ELSE IF p.connectVis THEN Outcome("not_connected", FALSE)
    ELSE IF p.pendingVis THEN Outcome("pending", FALSE)
    ELSE IF p.firstVis THEN Outcome("connected", FALSE)
    ELSE IF p.degreeVis THEN Outcome("not_connected", FALSE)
    ELSE IF MenuOpened(p) /\ p.dropConnect /\ p.bodyClickOk THEN Outcome("not_connected", FALSE)
    ELSE IF p.followVis THEN Outcome("not_connected", MenuLeftOpen(p))
    ELSE Outcome("unknown", MenuLeftOpen(p))


\* the More menu is reached: no signal was found before it
MenuReached(p) ==
    p.navOk /\ p.onProfile /\ ~p.connectVis /\ ~p.pendingVis /\ ~p.firstVis /\ ~p.degreeVis /\ p.moreVis

\* the classifier clicking the connect option it finds in the More menu
clicks_menu_option(p) ==
    IF ~MenuReached(p) THEN {}
    ELSE (IF p.moreClickOk THEN {"more"} ELSE {})
         \cup (IF p.moreClickOk /\ p.dropConnect THEN {"connect"} ELSE {})
         \cup (IF (p.moreClickOk /\ p.bodyClickOk) \/ p.bodyClick2Ok THEN {"body"} ELSE {})

\* lines 600, 610, 614, 619: the controls check_connection_status clicks
ClassifierClicks(p) ==
    IF ~MenuReached(p) THEN {}
    ELSE (IF p.moreClickOk THEN {"more"} ELSE {})
         \cup (IF (p.moreClickOk /\ p.bodyClickOk) \/ p.bodyClick2Ok THEN {"body"} ELSE {})

\* the results the classifier can give, over all pages
ClassifyOutcomes == {check_connection_status(p).status : p \in Pages}

\* ------------------------------------------------------------ verification
\* What the browser shows while _verify_connection_sent runs, each field at the
\* line that looks at it: the lists of lines 662, 678, 693 and 708; the
\* connect control at line 724, the URL and the dialog at line 726; the URL and
\* the dialog at line 734, the page source at lines 735-748, the connect
\* control at line 755 and the keywords at line 758. Reading the URL or the
\* page source may raise; _is_element_visible never does (lines 341-352).
VerifyFields == {"pendingSlot", "pendingBtn", "toast", "sentText",
                 "connectVis", "urlRaises", "onProfile", "dialogOpen",
                 "urlRaises2", "onProfile2", "dialogOpen2", "srcRaises", "srcPattern",
                 "connectVis2", "srcKeyword"}
VerifySignals == [VerifyFields -> BOOLEAN]

\* VerifyGround without the conditions of lines 726 and 734
VerifyGroundUnguarded(s) ==
    IF s.pendingSlot \/ s.pendingBtn THEN "pending"
    ELSE IF s.toast THEN "toast"
    ELSE IF s.sentText THEN "sent_text"
    ELSE IF ~s.connectVis THEN "connect_gone"
    ELSE IF s.srcRaises THEN "raised"
    ELSE IF s.srcPattern \/ (~s.connectVis2 /\ s.srcKeyword) THEN "page_source"
    ELSE "none"

\* lines 647-769: the ground on which the request is taken as sent, "none"
\* when there is none (line 766), "raised" when the except of line 767 is taken
VerifyGround(s) ==
    IF s.pendingSlot \/ s.pendingBtn THEN "pending"
    ELSE IF s.toast THEN "toast"
    ELSE IF s.sentText THEN "sent_text"
    ELSE IF ~s.connectVis /\ s.urlRaises THEN "raised"
    ELSE IF ~s.connectVis /\ s.onProfile /\ ~s.dialogOpen THEN "connect_gone"
    ELSE IF s.urlRaises2 THEN "raised"
    ELSE IF ~(s.onProfile2 /\ ~s.dialogOpen2) THEN "none"
    ELSE IF s.srcRaises THEN "raised"
    ELSE IF s.srcPattern \/ (~s.connectVis2 /\ s.srcKeyword) THEN "page_source"
    ELSE "none"

\* _verify_connection_sent taking the pending controls only as a ground
_verify_pending_only(s) == VerifyGround(s) = "pending"

_verify_connection_sent(s) == VerifyGround(s) \notin {"none", "raised"}

VerifyOutcomes == {_verify_connection_sent(s) : s \in VerifySignals}

\* ------------------------------------------------------------ quota ledger
\* request_count.csv: a sequence of rows [date, count]

HasRow(rows, day) == \E i \in 1..Len(rows) : rows[i].date = day

FirstRow(rows, day) == CHOOSE i \in 1..Len(rows) : rows[i].date = day /\ \A j \in 1..(i - 1) : rows[j].date # day

\* _load_request_count never finding today's row
_load_no_row(rows, day) == 0

\* _load_request_count taking the first row whatever its date
_load_any_date(rows, day) == IF rows # <<>> THEN rows[1].count ELSE 0

\* lines 119-132
_load_request_count(rows, day) == IF HasRow(rows, day) THEN rows[FirstRow(rows, day)].count ELSE 0

\* _save_request_count writing the row of the day and no other
_save_today_only(rows, day, count) == <<[date |-> day, count |-> count]>>

\* _save_request_count adding a row whether or not the day has one
_save_appends(rows, day, count) == Append(rows, [date |-> day, count |-> count])

\* lines 134-164
_save_request_count(rows, day, count) ==
    IF HasRow(rows, day)
    THEN [rows EXCEPT ![FirstRow(rows, day)] = [date |-> day, count |-> count]]
    ELSE Append(rows, [date |-> day, count |-> count])

\* the count the file holds for a day: that of its first row of that day,
\* 0 when it has none
Persisted(rows, day) ==
    LET of_day == {i \in 1..Len(rows) : rows[i].date = day}
    IN  IF of_day = {} THEN 0 ELSE rows[CHOOSE i \in of_day : \A j \in of_day : i <= j].count

\* the files an earlier run can have left: no file, a row of the day before,
\* a row of today (the run starts on day 1), both
InitialLedgers ==
    {<<>>, <<[date |-> 0, count |-> MaxStored]>>}
    \cup {<<[date |-> 1, count |-> c]>> : c \in 0..MaxStored}
    \cup {<<[date |-> 0, count |-> MaxStored], [date |-> 1, count |-> c]>> : c \in 1..MaxStored}

\* default of the max_retries parameter
max_retries == 2

\* ------------------------------------------------------------------- state
VARIABLES
    \* the engine (LinkedInAutomation.__init__, lines 45-53)
    request_count, daily_limit, has_template,
    \* the world: request_count.csv, the calendar day, LINKEDIN_VERIFY_CONNECTED
    ledger, today, verify_connected,
    \* the frame of a send_connection_request call made from outside the batch
    sc,
    \* process_profiles_from_csv: position, parameters and locals
    b_pc, rows, action, idx, profile_url, connection_state, results, counts, returned,
    \* what happened, for stating the properties
    loaded, rowlog, runs,
    \* the URL functions applied on their own
    u_in, u_norm, u_href,
    \* the classifier applied on its own
    c_page, c_out, c_menu_open, c_clicked,
    \* the other operations applied on their own: the personalisation of the
    \* note, the harvest of search_and_save_profiles, the locator resolver,
    \* _try_all_click_methods, the clock of the throttle
    pn, hv, fe, cm, th,
    \* a call of _verify_connection_sent on its own
    vf

engine == <<request_count, daily_limit, has_template>>
world == <<ledger, today, verify_connected>>
b_vars == <<b_pc, rows, action, idx, profile_url, connection_state, results, counts, returned>>
hist == <<loaded, rowlog, runs>>
u_vars == <<u_in, u_norm, u_href>>
c_vars == <<c_page, c_out, c_menu_open, c_clicked>>
x_vars == <<pn, hv, fe, cm, th, vf>>
vars == <<engine, world, sc, b_vars, hist, u_vars, c_vars, x_vars>>

\* the cells of the URL column a CSV file is made of: an empty cell, a profile
\* URL with a tracking parameter
RowCells == {<<>>, CanonicalPrefix \o <<"a", "?", "a">>}

RECURSIVE CsvUpTo(_)
CsvUpTo(n) ==
    IF n = 0 THEN {<<>>}
    ELSE LET shorter == CsvUpTo(n - 1)
         IN  shorter \cup {Append(f, c) : f \in {x \in shorter : Len(x) = n - 1}, c \in RowCells}

CsvFiles == CsvUpTo(MaxRows)

\* clicks are counted as 0, 1, ... up to ClickCap ("ClickCap or more")
ClickCap == 2
More(n) == IF n < ClickCap THEN n + 1 ELSE n

\* The frame of send_connection_request: its position, its parameter
\* personalized_note (is it non-empty), its locals, and what the call has
\* done so far (status: the first classification; clicks dispatched without
\* raising; navigated: driver.get was called; incs: increments of
\* request_count; count0: request_count when the call was made; branch: how
\* far the current attempt got with the connect or follow control;
\* follow_evidence: one of the checks of lines 1268-1295 was positive;
\* notes_typed: times the note was typed into the dialog; premium_returns:
\* times the premium limit dialog sent the call back to the connect control).
IdleFrame ==
    [pc |-> "idle", personalized_note |-> FALSE, attempt |-> 0, premium_limit_hit |-> FALSE,
     method |-> 0, result |-> FALSE,
     status |-> "none", connect_clicks |-> 0, submit_clicks |-> 0, follow_clicks |-> 0,
     navigated |-> FALSE, recheck_found |-> FALSE, incs |-> 0, count0 |-> 0,
     branch |-> "none", follow_evidence |-> FALSE, notes_typed |-> 0, premium_returns |-> 0]

StartFrame(note) == [IdleFrame EXCEPT !.pc = "enter", !.personalized_note = note]

ZeroCounts == [successful |-> 0, failed |-> 0, already_connected |-> 0, already_pending |-> 0]

InitIdle ==
    /\ sc = IdleFrame
    /\ b_pc = "idle" /\ rows = <<>> /\ action = "connect" /\ idx = 0 /\ profile_url = <<>>
    /\ connection_state = "unknown" /\ results = <<>> /\ counts = ZeroCounts /\ returned = <<>>
    /\ rowlog = <<>> /\ runs = 1

InitUrlIdle == u_in = <<>> /\ u_norm = <<>> /\ u_href = <<>>

InitClsIdle ==
    /\ c_page = [f \in PageFields |-> FALSE] /\ c_out = "none"
    /\ c_menu_open = FALSE /\ c_clicked = {}

Unused == [pc |-> "unused"]
InitPnIdle == pn = Unused
InitHvIdle == hv = Unused
InitFeIdle == fe = Unused
InitCmIdle == cm = Unused
InitThIdle == th = Unused
InitVfIdle == vf = Unused
InitOthersIdle ==
    InitPnIdle /\ InitHvIdle /\ InitFeIdle /\ InitCmIdle /\ InitThIdle /\ InitVfIdle

\* the state after construction: lines 45-53
Init ==
    /\ today = 1
    /\ ledger \in InitialLedgers
    /\ daily_limit \in 0..MaxLimit
    /\ has_template \in BOOLEAN
    /\ verify_connected \in BOOLEAN
    /\ request_count = _load_request_count(ledger, today)
    /\ loaded = request_count
    /\ InitIdle /\ InitUrlIdle /\ InitClsIdle /\ InitOthersIdle

\* ------------------------------------------------------ decisions of the code
\* the limit check with > for >=
LimitExceeded(count, limit) == count > limit

\* the limit check left out
LimitNotChecked(count, limit) == FALSE

\* lines 795 and 2327
LimitReached(count, limit) == count >= limit

\* line 2346
Connecting(act) == act \in {"connect", "both"}

\* line 2347 testing the pending state only
OnlyPendingHandled(state) == state = "pending"

\* line 2347: the batch does not call send_connection_request
AlreadyHandled(state) == state \in {"pending", "connected"}

\* lines 803-820: send_connection_request returns True at once ("return"),
\* looks for a connect control again ("recheck") or goes on ("attempt")
AfterStatus(status, paranoid) ==
    IF status = "pending" THEN "return"
    ELSE IF status = "connected" THEN (IF paranoid THEN "recheck" ELSE "return")
    ELSE "attempt"

\* the note decision on every attempt as on the first
NoteDecisionAnyAttempt(prem, att, note) ==
    IF prem THEN "send_multi" ELSE IF note THEN "add_note" ELSE "send_once"

\* the note decision looking at the note only
NoteDecisionByNote(prem, att, note) == IF note THEN "add_note" ELSE "send_once"

\* lines 915, 1023: what is done with the note dialog
NoteDecision(prem, att, note) ==
    IF prem \/ att > 0 THEN "send_multi" ELSE IF note THEN "add_note" ELSE "send_once"

\* the note texts of lines 2329, 2340, 2343, 2358, 2361
\* (the elapsed time that lines 2358 and 2361 put in the text is left out)
SkipNote == "Skipped due to daily limit"
ConnectedNote == "Already connected"
PendingNote == "Request already pending"
SentNote == "Connection request sent"
FailedNote == "Failed to send connection request"

\* ------------------------------------------------- send_connection_request
\* Each step is a function of the frame and of what the browser shows at
\* that step; it gives the frame after the step.
To(f, pc) == [f EXCEPT !.pc = pc, !.method = 0]

Ret(f, res) == [f EXCEPT !.pc = "returned", !.result = res, !.method = 0]

\* `continue`, and the end of the loop after the last attempt (line 1339)
NextAttempt(f) ==
    IF f.attempt < max_retries
    THEN [f EXCEPT !.pc = "navigate", !.attempt = @ + 1, !.method = 0]
    ELSE Ret(f, FALSE)

\* the increment without the return: the call goes on with the next attempt
CountedGoesOn(f) == [NextAttempt(f) EXCEPT !.incs = @ + 1]

\* self.request_count += 1; self._save_request_count(); return True
Counted(f) == [Ret(f, TRUE) EXCEPT !.incs = @ + 1]

\* if self._verify_connection_sent(profile_url): return True
VerifyOr(f, sent, pc) == IF sent THEN Counted(f) ELSE To(f, pc)

Click(f, field, clicked) == IF clicked THEN [f EXCEPT ![field] = More(@)] ELSE f

\* lines 783-820: throttle, limit check, first classification
enter(f, limited, paranoid, status) ==
    IF limited THEN Ret([f EXCEPT !.status = "limit"], FALSE)
    ELSE LET g == [f EXCEPT !.status = status, !.navigated = TRUE]
         IN  CASE AfterStatus(status, paranoid) = "return" -> Ret(g, TRUE)
               [] AfterStatus(status, paranoid) = "recheck" -> To(g, "recheck")
               [] OTHER -> To(g, "navigate")

\* lines 811-818: LINKEDIN_VERIFY_CONNECTED is 'true'
recheck(f, navOk, found) ==
    IF ~navOk THEN To(f, "raised")
    ELSE IF found THEN To([f EXCEPT !.recheck_found = TRUE], "navigate")
    ELSE Ret(f, TRUE)

\* lines 828-848: start of an attempt, up to the search of the connect control
navigate(f, navOk, found) ==
    LET g == [f EXCEPT !.navigated = TRUE, !.branch = "none"]
    IN  IF ~navOk THEN NextAttempt(g)
        ELSE IF found THEN To([g EXCEPT !.branch = "connect"], "click_connect")
        ELSE To(g, "follow")

\* lines 853-873: click on the connect control, URL comparison
click_connect(f, clicked, urlChanged) ==
    IF ~clicked THEN NextAttempt([f EXCEPT !.branch = "connect_failed"])
    ELSE To(Click(f, "connect_clicks", TRUE), IF urlChanged THEN "url_changed" ELSE "note_dialog")

\* lines 877-880: the URL changed after the click
url_changed(f, sent) == VerifyOr(f, sent, "reload")

\* lines 882-895: reload, second click on the connect control
reload(f, navOk, found, clicked) ==
    IF ~navOk \/ ~found THEN NextAttempt(f)
    ELSE To(Click(f, "connect_clicks", clicked), "note_dialog")

\* lines 897-916, 1023, 1229-1235: is the note dialog there
note_dialog(f, visible, sent) ==
    IF visible THEN To(f, NoteDecision(f.premium_limit_hit, f.attempt, f.personalized_note))
    ELSE VerifyOr(f, sent, "final")

\* lines 918-944, 1019-1020: search of the "Send without a note" control
send_multi(f, found) ==
    IF found THEN [f EXCEPT !.pc = "send_method", !.method = 1] ELSE To(f, "final")

\* lines 951-1013: click technique number f.method on "Send without a note"
send_method(f, raises, sent) ==
    IF raises
    THEN (IF f.method < 5 THEN [f EXCEPT !.method = @ + 1] ELSE To(f, "final"))
    ELSE LET g == Click(f, "submit_clicks", TRUE)
         IN  IF sent THEN Counted(g)
             ELSE IF g.method < 5 THEN [g EXCEPT !.method = @ + 1]
             ELSE To(g, "final")

\* lines 1024-1046, 1172-1184: "Add a note" control
add_note(f, found, premium, fallback, clicked, sent) ==
    IF found THEN To(f, IF premium THEN "premium" ELSE "enter_note")
    ELSE IF ~fallback THEN To(f, "final")
    ELSE VerifyOr(Click(f, "submit_clicks", clicked), sent, "final")

\* lines 1125-1171: type the note, click "Send"
enter_note(f, fieldFound, typingOk, sendFound, clicked, sent) ==
    LET g == [f EXCEPT !.notes_typed = More(@)]
    IN  IF ~fieldFound THEN To(f, "final")
        ELSE IF ~typingOk THEN NextAttempt(g)
        ELSE IF ~sendFound THEN To(g, "final")
        ELSE VerifyOr(Click(g, "submit_clicks", clicked), sent, "final")

\* lines 1046-1075, 1122-1123: premium limit dialog, reload, connect again
premium(f, navOk, found, clicked, visible) ==
    LET g == [f EXCEPT !.premium_limit_hit = TRUE, !.premium_returns = More(@)]
    IN  IF ~navOk THEN NextAttempt(g)
        ELSE IF ~found THEN To(g, "final")
        ELSE To(Click(g, "connect_clicks", clicked), IF visible THEN "send_once" ELSE "final")

\* lines 1076-1121 and 1187-1228: "Send without a note" by a JavaScript click,
\* by a direct click when that raised
send_once(f, found, jsRaises, directRaises, sent) ==
    IF ~found \/ (jsRaises /\ directRaises) THEN To(f, "final")
    ELSE VerifyOr(Click(f, "submit_clicks", TRUE), sent, "final")

\* lines 1237-1305: no connect control, the follow control instead; evidence:
\* a "Following" button, an "Unfollow" button or a confirmation is shown
\* (lines 1268-1295); line 1299 counts the click without any of them
follow(f, found, clicked, evidence) ==
    IF ~found THEN To([f EXCEPT !.branch = "no_control"], "final")
    ELSE IF ~clicked THEN To([f EXCEPT !.branch = "follow_failed"], "final")
    ELSE Counted([Click(f, "follow_clicks", TRUE) EXCEPT !.branch = "follow_clicked",
                                                         !.follow_evidence = evidence])

\* lines 1307-1337: reload and classify again
final(f, navOk, status) ==
    IF ~navOk THEN NextAttempt(f)
    ELSE IF status = "pending" THEN Counted(f)
    ELSE NextAttempt(f)

B == BOOLEAN

\* the frames one step of the call can lead to, over all the browser can show
Steps(f, limited, paranoid) ==
    CASE f.pc = "enter" -> {enter(f, limited, paranoid, st) : st \in ClassifyOutcomes}
      [] f.pc = "recheck" -> {recheck(f, n, fd) : n \in B, fd \in B}
      [] f.pc = "navigate" -> {navigate(f, n, fd) : n \in B, fd \in B}
      [] f.pc = "click_connect" -> {click_connect(f, c, u) : c \in B, u \in B}
      [] f.pc = "url_changed" -> {url_changed(f, s) : s \in VerifyOutcomes}
      [] f.pc = "reload" -> {reload(f, n, fd, c) : n \in B, fd \in B, c \in B}
      [] f.pc = "note_dialog" -> {note_dialog(f, v, s) : v \in B, s \in VerifyOutcomes}
      [] f.pc = "send_multi" -> {send_multi(f, fd) : fd \in B}
      [] f.pc = "send_method" -> {send_method(f, r, s) : r \in B, s \in VerifyOutcomes}
      [] f.pc = "add_note" ->
           {add_note(f, fd, p, fb, c, s) : fd \in B, p \in B, fb \in B, c \in B, s \in VerifyOutcomes}
      [] f.pc = "enter_note" ->
           {enter_note(f, fd, t, sf, c, s) : fd \in B, t \in B, sf \in B, c \in B, s \in VerifyOutcomes}
      [] f.pc = "premium" -> {premium(f, n, fd, c, v) : n \in B, fd \in B, c \in B, v \in B}
      [] f.pc = "send_once" -> {send_once(f, fd, j, d, s) : fd \in B, j \in B, d \in B, s \in VerifyOutcomes}
      [] f.pc = "follow" -> {follow(f, fd, c, ev) : fd \in B, c \in B, ev \in B}
      [] f.pc = "final" -> {final(f, n, st) : n \in B, st \in ClassifyOutcomes}
      [] OTHER -> {}

RECURSIVE Reach(_, _, _, _)
Reach(frontier, seen, limited, paranoid) ==
    IF frontier = {} THEN seen
    ELSE LET found == (UNION {Steps(f, limited, paranoid) : f \in frontier}) \ seen
         IN  Reach(found, seen \cup found, limited, paranoid)

\* the frames in which a whole call can end
CallEnds(note, limited, paranoid) ==
    {f \in Reach({StartFrame(note)}, {StartFrame(note)}, limited, paranoid) :
        f.pc \in {"returned", "raised"}}

Dispatched(f) == f.connect_clicks + f.follow_clicks + f.submit_clicks > 0

\* a whole call as its caller sees it: the value returned or the exception,
\* the increments of request_count, was a click dispatched
Seen(f) == [result |-> f.result, raised |-> f.pc = "raised", incs |-> f.incs,
            dispatched |-> Dispatched(f)]

send_connection_request ==
    [note \in B, limited \in B, paranoid \in B |-> {Seen(f) : f \in CallEnds(note, limited, paranoid)}]

\* request_count += 1; _save_request_count()
Increment ==
    /\ request_count' = request_count + 1
    /\ ledger' = _save_request_count(ledger, today, request_count + 1)

NoIncrement == UNCHANGED <<request_count, ledger>>

Frame == UNCHANGED <<daily_limit, has_template, today, verify_connected, loaded, runs, u_vars, c_vars, x_vars>>

\* the call moves on to frame g
Install(g) ==
    /\ sc' = g
    /\ IF g.incs > sc.incs THEN Increment ELSE NoIncrement
    /\ Frame /\ UNCHANGED b_vars /\ UNCHANGED rowlog

\* a caller outside the batch calls send_connection_request(url, note)
DirectCall ==
    /\ sc.pc = "idle" /\ b_pc = "idle"
    /\ \E note \in B : sc' = [StartFrame(note) EXCEPT !.count0 = request_count]
    /\ NoIncrement /\ Frame /\ UNCHANGED b_vars /\ UNCHANGED rowlog

SCR_Enter ==
    /\ sc.pc = "enter"
    /\ \E st \in ClassifyOutcomes :
         Install(enter(sc, LimitReached(request_count, daily_limit), verify_connected, st))

SCR_Recheck == sc.pc = "recheck" /\ \E n \in B, fd \in B : Install(recheck(sc, n, fd))

SCR_Navigate == sc.pc = "navigate" /\ \E n \in B, fd \in B : Install(navigate(sc, n, fd))

SCR_ClickConnect == sc.pc = "click_connect" /\ \E c \in B, u \in B : Install(click_connect(sc, c, u))

SCR_UrlChanged == sc.pc = "url_changed" /\ \E s \in VerifyOutcomes : Install(url_changed(sc, s))

SCR_Reload == sc.pc = "reload" /\ \E n \in B, fd \in B, c \in B : Install(reload(sc, n, fd, c))

SCR_NoteDialog == sc.pc = "note_dialog" /\ \E v \in B, s \in VerifyOutcomes : Install(note_dialog(sc, v, s))

SCR_SendMulti == sc.pc = "send_multi" /\ \E fd \in B : Install(send_multi(sc, fd))

SCR_SendMethod == sc.pc = "send_method" /\ \E r \in B, s \in VerifyOutcomes : Install(send_method(sc, r, s))

SCR_AddNote ==
    /\ sc.pc = "add_note"
    /\ \E fd \in B, p \in B, fb \in B, c \in B, s \in VerifyOutcomes : Install(add_note(sc, fd, p, fb, c, s))

SCR_EnterNote ==
    /\ sc.pc = "enter_note"
    /\ \E fd \in B, t \in B, sf \in B, c \in B, s \in VerifyOutcomes : Install(enter_note(sc, fd, t, sf, c, s))

SCR_Premium ==
    /\ sc.pc = "premium"
    /\ \E n \in B, fd \in B, c \in B, v \in B : Install(premium(sc, n, fd, c, v))

SCR_SendOnce ==
    /\ sc.pc = "send_once"
    /\ \E fd \in B, j \in B, d \in B, s \in VerifyOutcomes : Install(send_once(sc, fd, j, d, s))

SCR_Follow == sc.pc = "follow" /\ \E fd \in B, c \in B, ev \in B : Install(follow(sc, fd, c, ev))

SCR_Final == sc.pc = "final" /\ \E n \in B, st \in ClassifyOutcomes : Install(final(sc, n, st))

\* the call is over: True, False, or the exception of line 811
DirectReturn ==
    /\ sc.pc \in {"returned", "raised"}
    /\ sc' = IdleFrame
    /\ NoIncrement /\ Frame /\ UNCHANGED b_vars /\ UNCHANGED rowlog

\* ----------------------------------------------- process_profiles_from_csv
Record(url, status, state, note) ==
    [profile_url |-> url, connect_status |-> status, connection_state |-> state, note |-> note]

\* what happened to one row that the loop reached with a valid URL
LogEntry(i, url, count) ==
    [row |-> i, url |-> url, count0 |-> count, state |-> "none", navigated |-> FALSE,
     dispatched |-> FALSE, incs |-> 0, records |-> 0]

Last(q) == q[Len(q)]
SetLast(q, e) == [q EXCEPT ![Len(q)] = e]

\* lines 2244-2270: read the file, empty results
BatchStart ==
    /\ b_pc = "idle" /\ sc.pc = "idle"
    /\ \E file \in CsvFiles, act \in {"connect", "message"} :
         /\ rows' = file /\ action' = act
         /\ IF file = <<>> THEN b_pc' = "done" ELSE b_pc' = "row"
    /\ idx' = 1 /\ profile_url' = <<>> /\ connection_state' = "unknown"
    /\ results' = <<>> /\ counts' = ZeroCounts /\ returned' = <<>>
    /\ rowlog' = <<>>
    /\ NoIncrement /\ Frame /\ UNCHANGED sc

\* lines 2272-2331 and 2376-2389: next row, URL check, daily limit, end of loop
BatchRow ==
    /\ b_pc = "row"
    /\ IF idx > Len(rows)
       THEN /\ b_pc' = "done" /\ returned' = results
            /\ UNCHANGED <<idx, profile_url, results, rowlog>>
       ELSE LET n == NormalizeUrl(rows[idx])
            IN  IF ~n.valid
                THEN /\ idx' = idx + 1
                     /\ UNCHANGED <<b_pc, profile_url, results, returned, rowlog>>
                ELSE IF LimitReached(request_count, daily_limit) /\ Connecting(action)
                THEN /\ results' = Append(results, Record(n.url, FALSE, "unknown", SkipNote))
                     /\ returned' = results'
                     /\ rowlog' = Append(rowlog, [LogEntry(idx, n.url, request_count) EXCEPT !.records = 1])
                     /\ profile_url' = n.url
                     /\ b_pc' = "done"
                     /\ UNCHANGED idx
                ELSE /\ profile_url' = n.url
                     /\ rowlog' = Append(rowlog, LogEntry(idx, n.url, request_count))
                     /\ b_pc' = "classify"
                     /\ UNCHANGED <<idx, results, returned>>
    /\ UNCHANGED <<rows, action, connection_state, counts>>
    /\ NoIncrement /\ Frame /\ UNCHANGED sc

\* a loop that leaves the state counters of lines 2338-2343 alone
CountNothing(c, state) == c

\* lines 2338-2343
Count(c, state) ==
    IF state = "connected" THEN [c EXCEPT !.already_connected = @ + 1]
    ELSE IF state = "pending" THEN [c EXCEPT !.already_pending = @ + 1]
    ELSE c

StateNote(state) ==
    IF state = "connected" THEN ConnectedNote
    ELSE IF state = "pending" THEN PendingNote
    ELSE ""

\* lines 2333-2349 and 2363-2364: classify; the record of a row for which
\* send_connection_request is not called
BatchClassify ==
    /\ b_pc = "classify"
    /\ \E state \in ClassifyOutcomes :
         /\ connection_state' = state
         /\ counts' = Count(counts, state)
         /\ IF Connecting(action) /\ ~AlreadyHandled(state)
            THEN /\ b_pc' = "send"
                 /\ rowlog' = SetLast(rowlog, [Last(rowlog) EXCEPT !.state = state, !.navigated = TRUE])
                 /\ UNCHANGED <<results, idx>>
            ELSE /\ results' = Append(results, Record(profile_url, Connecting(action), state, StateNote(state)))
                 /\ rowlog' = SetLast(rowlog, [Last(rowlog) EXCEPT !.state = state, !.navigated = TRUE,
                                                                   !.records = @ + 1])
                 /\ idx' = idx + 1 /\ b_pc' = "row"
    /\ UNCHANGED <<rows, action, profile_url, returned>>
    /\ NoIncrement /\ Frame /\ UNCHANGED sc

\* lines 2350-2364 and 2391-2395: the call of send_connection_request and
\* the record made of its result; an exception ends the batch
BatchSend ==
    /\ b_pc = "send"
    /\ \E f \in send_connection_request[has_template, LimitReached(request_count, daily_limit),
                                        verify_connected] :
         /\ IF f.incs > 0 THEN Increment ELSE NoIncrement
         /\ rowlog' = SetLast(rowlog, [Last(rowlog) EXCEPT !.dispatched = f.dispatched, !.incs = f.incs,
                                           !.records = IF f.raised THEN 0 ELSE @ + 1])
         /\ IF f.raised
            THEN /\ returned' = <<>> /\ b_pc' = "done"
                 /\ UNCHANGED <<results, counts, idx>>
            ELSE /\ results' = Append(results, Record(profile_url, f.result, connection_state,
                                                      IF f.result THEN SentNote ELSE FailedNote))
                 /\ counts' = IF f.result THEN [counts EXCEPT !.successful = @ + 1]
                              ELSE [counts EXCEPT !.failed = @ + 1]
                 /\ idx' = idx + 1 /\ b_pc' = "row"
                 /\ UNCHANGED returned
    /\ UNCHANGED <<rows, action, profile_url, connection_state>>
    /\ Frame /\ UNCHANGED sc

\* the caller has the returned list; the engine can be used again
BatchEnd ==
    /\ b_pc = "done"
    /\ b_pc' = "idle" /\ rows' = <<>> /\ action' = "connect" /\ idx' = 0 /\ profile_url' = <<>>
    /\ connection_state' = "unknown" /\ results' = <<>> /\ counts' = ZeroCounts /\ returned' = <<>>
    /\ rowlog' = <<>>
    /\ NoIncrement /\ Frame /\ UNCHANGED sc

\* Midnight passes: datetime.now() of lines 121 and 136 gives the next date.
\* The date is read by _save_request_count only, and a call saves at most
\* once, so midnight inside a call is midnight before or after it.
NextDay ==
    /\ today < MaxDay /\ sc.pc = "idle"
    /\ today' = today + 1
    /\ UNCHANGED <<request_count, daily_limit, has_template, ledger, verify_connected>>
    /\ UNCHANGED <<sc, b_vars, hist, u_vars, c_vars, x_vars>>

SendSteps ==
    \/ SCR_Enter \/ SCR_Recheck \/ SCR_Navigate \/ SCR_ClickConnect \/ SCR_UrlChanged
    \/ SCR_Reload \/ SCR_NoteDialog \/ SCR_SendMulti \/ SCR_SendMethod \/ SCR_AddNote
    \/ SCR_EnterNote \/ SCR_Premium \/ SCR_SendOnce \/ SCR_Follow \/ SCR_Final

\* The engine used call by call, over several days, whatever request_count.csv
\* held at startup.
Next == SendSteps \/ DirectCall \/ DirectReturn \/ NextDay

Spec == Init /\ [][Next]_vars

\* The engine used for batches and single calls within one day.
InitBatch ==
    /\ today = 1
    /\ ledger \in {<<>>, <<[date |-> 1, count |-> MaxStored]>>}
    /\ daily_limit \in 0..MaxLimit
    /\ has_template \in BOOLEAN
    /\ verify_connected \in BOOLEAN
    /\ request_count = _load_request_count(ledger, today)
    /\ loaded = request_count
    /\ InitIdle /\ InitUrlIdle /\ InitClsIdle /\ InitOthersIdle

NextBatch ==
    \/ BatchStart \/ BatchRow \/ BatchClassify \/ BatchSend \/ BatchEnd
    \/ SendSteps \/ DirectCall \/ DirectReturn

SpecBatch == InitBatch /\ [][NextBatch]_vars

\* ------------------------------------------- the URL functions on their own
InitWorld ==
    /\ today = 1 /\ ledger = <<>> /\ daily_limit = MaxLimit /\ has_template = TRUE
    /\ verify_connected = FALSE /\ request_count = 0 /\ loaded = 0

InitUrl == InitWorld /\ InitIdle /\ InitClsIdle /\ InitOthersIdle /\ u_in \in Urls /\ u_norm = <<>> /\ u_href = <<>>

Rest == UNCHANGED <<engine, world, sc, b_vars, hist, x_vars>>

\* the URL check of process_profiles_from_csv, on a cell and then on its own result
UrlNormalize ==
    /\ u_href = <<>> /\ Len(u_norm) < 2
    /\ u_norm # <<>> => Last(u_norm).valid
    /\ u_norm' = Append(u_norm, NormalizeUrl(IF u_norm = <<>> THEN u_in ELSE Last(u_norm).url))
    /\ UNCHANGED <<u_in, u_href>> /\ UNCHANGED c_vars /\ Rest

\* the href cleaning of _extract_profile_data, on a link and then on its own result
UrlCleanHref ==
    /\ u_norm = <<>> /\ Len(u_href) < 2
    /\ u_href # <<>> => Last(u_href).valid
    /\ u_href' = Append(u_href, CleanHref(IF u_href = <<>> THEN u_in ELSE Last(u_href).url))
    /\ UNCHANGED <<u_in, u_norm>> /\ UNCHANGED c_vars /\ Rest

NextUrl == UrlNormalize \/ UrlCleanHref

SpecUrl == InitUrl /\ [][NextUrl]_vars

\* --------------------------------------------- the classifier on its own
InitClassify ==
    /\ today = 1 /\ ledger \in {<<>>, <<[date |-> 1, count |-> MaxStored]>>}
    /\ request_count = _load_request_count(ledger, today) /\ loaded = request_count
    /\ daily_limit = MaxLimit /\ has_template = TRUE /\ verify_connected = FALSE
    /\ InitIdle /\ InitUrlIdle /\ InitOthersIdle
    /\ c_page \in Pages /\ c_out = "none" /\ c_menu_open = FALSE /\ c_clicked = {}

\* check_connection_status on the page c_page
Classify ==
    /\ c_out = "none"
    /\ c_out' = check_connection_status(c_page).status
    /\ c_menu_open' = check_connection_status(c_page).menu_open
    /\ c_clicked' = ClassifierClicks(c_page)
    /\ UNCHANGED c_page /\ UNCHANGED u_vars /\ Rest

NextClassify == Classify

SpecClassify == InitClassify /\ [][NextClassify]_vars

\* ------------------------------------------- the personalisation on its own
\* Texts are sequences of tokens: "{name}" is the placeholder, "Hi" any other
\* text of a template; " " is a run of whitespace and "Ada" a word of a name;
\* "A" is the title-cased "a" of a URL.
MaxTemplateLen == 2   \* longest message template, in tokens

TemplateTokens == {"Hi", "{name}"}

RECURSIVE TemplatesUpTo(_)
TemplatesUpTo(n) ==
    IF n = 0 THEN {<<>>}
    ELSE LET shorter == TemplatesUpTo(n - 1)
         IN  shorter \cup {Append(t, k) : t \in {x \in shorter : Len(x) = n - 1}, k \in TemplateTokens}

Templates == TemplatesUpTo(MaxTemplateLen)

\* the value of the name column in a row: <<>> when there is no such column
\* or the cell is empty
NameCells == {<<>>, <<" ">>, <<"Ada">>, <<" ", "Ada", " ">>}

\* the profile URLs of the rows
NoteUrls == {CanonicalPrefix, CanonicalPrefix \o <<"a">>, CanonicalPrefix \o <<"a", "?", "a">>,
             CanonicalPrefix \o <<"?", "a">>}

\* index of the last occurrence of tok in s, 0 when there is none
LastIndex(s, tok) ==
    IF Contains(s, tok) THEN CHOOSE i \in 1..Len(s) : s[i] = tok /\ \A j \in (i + 1)..Len(s) : s[j] # tok
    ELSE 0

\* s.split(tok)[-1]
SplitLast(s, tok) == SubSeq(s, LastIndex(s, tok) + 1, Len(s))

\* str.title() on the tokens of a URL
Title(s) == [i \in 1..Len(s) |-> IF s[i] = "a" THEN "A" ELSE s[i]]

\* lines 2306-2317: the name used for the row
ProfileName(cell, url) ==
    IF cell # <<>> THEN Strip(cell)
    ELSE Title(SplitHead(SplitLast(url, "/in/"), "?"))

\* str.replace('{name}', name)
RECURSIVE Replace(_, _)
Replace(t, name) ==
    IF t = <<>> THEN <<>>
    ELSE (IF Head(t) = "{name}" THEN name ELSE <<Head(t)>>) \o Replace(Tail(t), name)

\* lines 2321-2324
Personalize(template, profile_name) ==
    IF Contains(template, "{name}") /\ profile_name # <<>>
    THEN Replace(template, profile_name)
    ELSE template

InitNote ==
    /\ InitWorld /\ InitIdle /\ InitUrlIdle /\ InitClsIdle
    /\ InitHvIdle /\ InitFeIdle /\ InitCmIdle /\ InitThIdle /\ InitVfIdle
    /\ \E t \in Templates, c \in NameCells, u \in NoteUrls :
         pn = [pc |-> "row", message_template |-> t, name_cell |-> c, profile_url |-> u,
               profile_name |-> <<>>, personalized_note |-> <<>>]

\* lines 2306-2324 for one row
PersonalizeRow ==
    /\ pn.pc = "row"
    /\ LET name == ProfileName(pn.name_cell, pn.profile_url)
       IN  pn' = [pn EXCEPT !.pc = "done", !.profile_name = name,
                            !.personalized_note = Personalize(pn.message_template, name)]
    /\ UNCHANGED <<engine, world, sc, b_vars, hist, u_vars, c_vars, hv, fe, cm, th, vf>>

NextNote == PersonalizeRow

SpecNote == InitNote /\ [][NextNote]_vars

\* ------------------------------------------------ search_and_save_profiles
MaxCards == 2         \* most profile cards on one page of results
MaxHarvest == 3       \* largest limit (profiles asked for) tried

max_empty_pages == 3

\* the link of a profile card: none, a link that is no profile link, profile
\* links with a tracking parameter, with a fragment, of another profile
CardHrefs == {<<>>, <<"a">>, <<"/in/", "a", "?", "a">>, <<"/in/", "a", "#">>, <<"/in/", "b">>}

RECURSIVE PagesUpTo(_)
PagesUpTo(n) ==
    IF n = 0 THEN {<<>>}
    ELSE LET shorter == PagesUpTo(n - 1)
         IN  shorter \cup {Append(pg, h) : pg \in {x \in shorter : Len(x) = n - 1}, h \in CardHrefs}

ResultPages == PagesUpTo(MaxCards)

\* the test of line 2171 looking at the profile collected last only
CollectedLast(data, profile) == data # <<>> /\ data[Len(data)] = profile

\* any(p.get('profile') == profile for p in profiles_data)
Collected(data, profile) == \E i \in 1..Len(data) : data[i] = profile

\* lines 2158-2180: one card; h is the harvest record, new_profiles_on_page in
\* its field new; repeated: a card of the page was skipped as collected already
AddCard(h, href) ==
    LET profile == CleanHref(href).url
    IN  IF h.profiles_processed >= h.limit THEN h
        ELSE IF profile # <<>> /\ Contains(profile, "/in/") /\ ~Collected(h.profiles_data, profile)
             THEN [h EXCEPT !.profiles_data = Append(@, profile), !.profiles_processed = @ + 1,
                            !.new = @ + 1]
             ELSE IF profile # <<>> /\ Contains(profile, "/in/") THEN [h EXCEPT !.repeated = TRUE]
             ELSE h

\* the for loop of line 2158
RECURSIVE AddCards(_, _)
AddCards(h, cards) == IF cards = <<>> THEN h ELSE AddCards(AddCard(h, Head(cards)), Tail(cards))

\* the condition of the while without the count of empty pages
PagingToLimit(h) == h.profiles_processed < h.limit

\* the condition of the while of line 2130
Paging(h) == h.profiles_processed < h.limit /\ h.pages_without_new_profiles < max_empty_pages

\* the top of the loop: go on with the next page or leave the loop
LoopTop(h) ==
    IF Paging(h) THEN [h EXCEPT !.pc = "page"]
    ELSE [h EXCEPT !.pc = "done",
                   !.stop = IF h.profiles_processed >= h.limit THEN "limit" ELSE "empty_pages"]

\* lines 2137-2151: a page without profile cards
EmptyPage(h, nextOk) ==
    LET g == [h EXCEPT !.pages_without_new_profiles = @ + 1, !.new = 0, !.scanned = TRUE,
                       !.repeated = FALSE]
    IN  IF g.pages_without_new_profiles >= max_empty_pages
        THEN [g EXCEPT !.pc = "done", !.stop = "empty_pages"]
        ELSE IF nextOk THEN LoopTop(g)
        ELSE [g EXCEPT !.pc = "done", !.stop = "no_next_page"]

\* what a write of the harvest CSV can come to: it is written; open() raises
\* and the file stays as it was; open(filename, 'w') has emptied the file and
\* the rows are not written
SaveOutcomes == {"ok", "open_fails", "write_fails"}

\* lines 2023-2057: the file afterwards and the value returned
_save_profiles_to_csv(file, profiles_data, outcome) ==
    IF profiles_data = <<>> THEN [file |-> file, ok |-> FALSE]
    ELSE IF outcome = "ok" THEN [file |-> profiles_data, ok |-> TRUE]
    ELSE IF outcome = "open_fails" THEN [file |-> file, ok |-> FALSE]
    ELSE [file |-> <<>>, ok |-> FALSE]

\* lines 2189-2192: the save at the end of a page, its result is not looked at
SavePage(h, outcome) ==
    IF h.profiles_data = <<>> THEN h
    ELSE LET w == _save_profiles_to_csv(h.file, h.profiles_data, outcome)
         IN  [h EXCEPT !.file = w.file, !.save_state = IF w.ok THEN "ok" ELSE "failed"]

\* lines 2153-2200: a page with profile cards
CardsPage(h, cards, nextOk, outcome) ==
    LET g == AddCards([h EXCEPT !.new = 0, !.scanned = TRUE, !.repeated = FALSE], cards)
        j == [g EXCEPT !.pages_without_new_profiles = IF g.new = 0 THEN @ + 1 ELSE 0]
        k == SavePage(j, outcome)
    IN  IF k.profiles_processed < k.limit
        THEN (IF nextOk THEN LoopTop(k) ELSE [k EXCEPT !.pc = "done", !.stop = "no_next_page"])
        ELSE LoopTop(k)

\* lines 2123-2127: the state before the loop
StartHarvest(limit) ==
    LoopTop([pc |-> "page", limit |-> limit, profiles_data |-> <<>>, profiles_processed |-> 0,
             pages_without_new_profiles |-> 0, new |-> 0, scanned |-> FALSE, repeated |-> FALSE,
             stop |-> "none", file |-> <<>>, save_state |-> "none", returned_value |-> 0])

InitHarvest ==
    /\ InitWorld /\ InitIdle /\ InitUrlIdle /\ InitClsIdle
    /\ InitPnIdle /\ InitFeIdle /\ InitCmIdle /\ InitThIdle /\ InitVfIdle
    /\ \E limit \in 0..MaxHarvest : hv = StartHarvest(limit)

\* one turn of the while loop, _go_to_next_page (lines 484-498) included
ScanPage ==
    /\ hv.pc = "page"
    /\ \E cards \in ResultPages, nextOk \in BOOLEAN, outcome \in SaveOutcomes :
         hv' = IF cards = <<>> THEN EmptyPage(hv, nextOk)
               ELSE CardsPage(hv, cards, nextOk, outcome)
    /\ UNCHANGED <<engine, world, sc, b_vars, hist, u_vars, c_vars, pn, fe, cm, th, vf>>

\* the value returned whatever the final save came to
final_save_unchecked(h, outcome) ==
    LET k == SavePage(h, outcome)
    IN  [k EXCEPT !.pc = "returned", !.returned_value = Len(k.profiles_data)]

\* lines 2202-2213: the final save and the value returned
final_save(h, outcome) ==
    LET k == SavePage(h, outcome)
    IN  [k EXCEPT !.pc = "returned",
                  !.returned_value = IF k.profiles_data # <<>> /\ k.save_state = "ok"
                                     THEN Len(k.profiles_data) ELSE 0]

FinalSave ==
    /\ hv.pc = "done"
    /\ \E outcome \in SaveOutcomes : hv' = final_save(hv, outcome)
    /\ UNCHANGED <<engine, world, sc, b_vars, hist, u_vars, c_vars, pn, fe, cm, th, vf>>

NextHarvest == ScanPage \/ FinalSave

SpecHarvest == InitHarvest /\ [][NextHarvest]_vars

\* every call the loop makes returns
SpecHarvestFair == SpecHarvest /\ WF_vars(ScanPage)

\* ------------------------------------------------------ the locator resolver
MaxElems == 3         \* most elements a selector matches

\* what is_displayed() does on a matched element: True, False, raises (the
\* element went away after the query)
ElemKinds == {"visible", "hidden", "detached"}

RECURSIVE ElemsUpTo(_)
ElemsUpTo(n) ==
    IF n = 0 THEN {<<>>}
    ELSE LET shorter == ElemsUpTo(n - 1)
         IN  shorter \cup {Append(e, k) : e \in {x \in shorter : Len(x) = n - 1}, k \in ElemKinds}

Matches == ElemsUpTo(MaxElems)

\* the result None of _find_element; an element is given by its index
None == 0

\* the loop of _find_element with no try around is_displayed(): the outer
\* handler returns None
examine_unguarded(f) ==
    IF f.i > Len(f.elements) THEN [f EXCEPT !.pc = "returned", !.element = None]
    ELSE IF f.elements[f.i] = "visible" THEN [f EXCEPT !.pc = "returned", !.element = f.i]
    ELSE IF f.elements[f.i] = "detached" THEN [f EXCEPT !.pc = "returned", !.element = None]
    ELSE [f EXCEPT !.i = @ + 1]

\* lines 343-349: one turn of the loop of _find_element, or its end
examine(f) ==
    IF f.i > Len(f.elements) THEN [f EXCEPT !.pc = "returned", !.element = None]
    ELSE IF f.elements[f.i] = "visible" THEN [f EXCEPT !.pc = "returned", !.element = f.i]
    ELSE [f EXCEPT !.i = @ + 1]

InitFind ==
    /\ InitWorld /\ InitIdle /\ InitUrlIdle /\ InitClsIdle
    /\ InitPnIdle /\ InitHvIdle /\ InitCmIdle /\ InitThIdle /\ InitVfIdle
    /\ \E e \in Matches, r \in BOOLEAN :
         fe = [pc |-> "query", elements |-> e, query_raises |-> r, i |-> 1, element |-> None,
               visible |-> FALSE]

OtherThanFind == UNCHANGED <<engine, world, sc, b_vars, hist, u_vars, c_vars, pn, hv, cm, th, vf>>

\* lines 341-342, 350-352: driver.find_elements, which may raise
FindQuery ==
    /\ fe.pc = "query"
    /\ fe' = IF fe.query_raises THEN [fe EXCEPT !.pc = "returned", !.element = None]
             ELSE [fe EXCEPT !.pc = "loop"]
    /\ OtherThanFind

FindExamine == fe.pc = "loop" /\ fe' = examine(fe) /\ OtherThanFind

\* lines 364-365: _is_element_visible
IsElementVisible ==
    /\ fe.pc = "returned"
    /\ fe' = [fe EXCEPT !.pc = "answered", !.visible = (fe.element # None)]
    /\ OtherThanFind

NextFind == FindQuery \/ FindExamine \/ IsElementVisible

SpecFind == InitFind /\ [][NextFind]_vars

\* ---------------------------------------------------- _try_all_click_methods
\* the click techniques, in the order of lines 413-479
Techniques == <<"javascript_click", "mouse_event", "native_click", "action_chains",
                "offset_click", "wait_until_clickable">>

\* which techniques raise on the element
Raising == [1..Len(Techniques) -> BOOLEAN]

\* a technique that completed is not taken as success: the next one is tried
attempt_on(f) ==
    LET g == [f EXCEPT !.tried = Append(@, Techniques[f.method])]
    IN  IF f.method < Len(Techniques) THEN [g EXCEPT !.method = @ + 1]
        ELSE [g EXCEPT !.pc = "returned", !.result = \E m \in 1..Len(Techniques) : ~f.raises[m]]

\* one try/except block of lines 413-479: technique number f.method
attempt(f) ==
    LET g == [f EXCEPT !.tried = Append(@, Techniques[f.method])]
    IN  IF ~f.raises[f.method] THEN [g EXCEPT !.pc = "returned", !.result = TRUE]
        ELSE IF f.method < Len(Techniques) THEN [g EXCEPT !.method = @ + 1]
        ELSE [g EXCEPT !.pc = "returned", !.result = FALSE]

InitClick ==
    /\ InitWorld /\ InitIdle /\ InitUrlIdle /\ InitClsIdle
    /\ InitPnIdle /\ InitHvIdle /\ InitFeIdle /\ InitThIdle /\ InitVfIdle
    /\ \E n \in BOOLEAN, r \in Raising, sr \in BOOLEAN :
         cm = [pc |-> "called", element_is_none |-> n, raises |-> r, method |-> 1, tried |-> <<>>,
               result |-> FALSE, scroll_raises |-> sr, scrolls |-> 0, pauses |-> 0]

OtherThanClick == UNCHANGED <<engine, world, sc, b_vars, hist, u_vars, c_vars, pn, hv, fe, th, vf>>

\* the techniques started without scrolling to the element
no_scroll(f) == [f EXCEPT !.pc = "methods"]

\* lines 407-412: scrollIntoView, which may raise, then time.sleep(0.5)
scroll_into_view(f) ==
    [f EXCEPT !.pc = "methods", !.scrolls = @ + 1,
              !.pauses = IF f.scroll_raises THEN @ ELSE @ + 1]

\* lines 402-412: no element, else scroll it into view
ClickEnter ==
    /\ cm.pc = "called"
    /\ cm' = IF cm.element_is_none THEN [cm EXCEPT !.pc = "returned", !.result = FALSE]
             ELSE scroll_into_view(cm)
    /\ OtherThanClick

ClickAttempt == cm.pc = "methods" /\ cm' = attempt(cm) /\ OtherThanClick

NextClick == ClickEnter \/ ClickAttempt

SpecClick == InitClick /\ [][NextClick]_vars

\* ------------------------------------------------------------- the throttle
\* Time is counted in seconds. th holds the clock (now: time.time()),
\* _last_request_time, and for stating the properties: the time the call
\* before ended (prev_end, with has_prev), the time the call slept in the
\* throttle (waited), whether the limit check rejected it (limited).
MaxTime == 50         \* the clock stops there

\* line 787: the minimum time between requests
MinInterval == 15

\* lines 510 and 835: the shortest sleeps between the limit check and the
\* first click on a connect control (3 + 3 seconds)
MinToClick == 6

\* line 790: after time.sleep the clock shows at least now + wait_time
SleepUntil(now, last) ==
    IF now - last < MinInterval THEN now + (MinInterval - (now - last)) ELSE now

InitThrottle ==
    /\ InitWorld /\ InitIdle /\ InitUrlIdle /\ InitClsIdle
    /\ InitPnIdle /\ InitHvIdle /\ InitFeIdle /\ InitCmIdle /\ InitVfIdle
    /\ th = [pc |-> "idle", now |-> MinInterval, _last_request_time |-> 0, has_prev |-> FALSE,
             prev_end |-> 0, waited |-> 0, limited |-> FALSE]

OtherThanThrottle == UNCHANGED <<engine, world, sc, b_vars, hist, u_vars, c_vars, pn, hv, fe, cm, vf>>

\* time passes between two calls
ThTick ==
    /\ th.pc = "idle" /\ th.now < MaxTime
    /\ th' = [th EXCEPT !.now = @ + 1]
    /\ OtherThanThrottle

\* lines 783-797: throttle, then the limit check
ThEnter ==
    /\ th.pc = "idle"
    /\ LET woke == SleepUntil(th.now, th._last_request_time)
       IN  /\ woke <= MaxTime
           /\ \E limited \in BOOLEAN :
                th' = [th EXCEPT !.pc = IF limited THEN "returned" ELSE "running",
                                 !.now = woke, !.waited = woke - th.now,
                                 !._last_request_time = woke, !.limited = limited]
    /\ OtherThanThrottle

\* lines 799-854: classification, navigation, the first click on a control
ThClick ==
    /\ th.pc = "running"
    /\ \E d \in {MinToClick, MinInterval} :
         /\ th.now + d <= MaxTime
         /\ th' = [th EXCEPT !.pc = "clicked", !.now = @ + d]
    /\ OtherThanThrottle

\* the call goes on to its end, with or without a click
ThFinish ==
    /\ th.pc \in {"running", "clicked"}
    /\ \E d \in {MinToClick, MinInterval} :
         /\ th.now + d <= MaxTime
         /\ th' = [th EXCEPT !.pc = "returned", !.now = @ + d]
    /\ OtherThanThrottle

\* the caller has the result
ThReturn ==
    /\ th.pc = "returned"
    /\ th' = [th EXCEPT !.pc = "idle", !.has_prev = TRUE, !.prev_end = th.now, !.waited = 0,
                        !.limited = FALSE]
    /\ OtherThanThrottle

NextThrottle == ThTick \/ ThEnter \/ ThClick \/ ThFinish \/ ThReturn

SpecThrottle == InitThrottle /\ [][NextThrottle]_vars

\* ------------------------------------------------------------ a new instance
MaxRuns == 2          \* instances created one after the other on the same files

\* the ledgers the first instance finds
InitRestart ==
    /\ today = 1
    /\ ledger \in {<<>>, <<[date |-> 0, count |-> MaxStored]>>, <<[date |-> 1, count |-> 1]>>}
    /\ daily_limit \in 1..MaxLimit
    /\ has_template \in BOOLEAN
    /\ verify_connected \in BOOLEAN
    /\ request_count = _load_request_count(ledger, today)
    /\ loaded = request_count
    /\ InitIdle /\ InitUrlIdle /\ InitClsIdle /\ InitOthersIdle

\* lines 771-1339: a whole call of send_connection_request by the instance
WholeCall ==
    /\ sc.pc = "idle" /\ b_pc = "idle"
    /\ \E note \in B :
         \E o \in send_connection_request[note, LimitReached(request_count, daily_limit),
                                          verify_connected] :
            IF o.incs > 0 THEN Increment ELSE NoIncrement
    /\ Frame /\ UNCHANGED <<sc, b_vars, rowlog>>

\* lines 45-53: the process ends and LinkedInAutomation is constructed again;
\* request_count.csv stays as the run before left it
Restart ==
    /\ sc.pc = "idle" /\ b_pc = "idle" /\ runs < MaxRuns
    /\ runs' = runs + 1
    /\ request_count' = _load_request_count(ledger, today)
    /\ loaded' = request_count'
    /\ UNCHANGED <<daily_limit, has_template, world, sc, b_vars, rowlog, u_vars, c_vars, x_vars>>

NextRestart == WholeCall \/ NextDay \/ Restart

SpecRestart == InitRestart /\ [][NextRestart]_vars

\* ------------------------------------------- _verify_connection_sent on its own
\* the files the call finds: none, or a row of today
InitVerify ==
    /\ today = 1
    /\ ledger \in {<<>>, <<[date |-> 1, count |-> MaxStored]>>}
    /\ daily_limit = MaxLimit /\ has_template = FALSE /\ verify_connected = FALSE
    /\ request_count = _load_request_count(ledger, today)
    /\ loaded = request_count
    /\ InitIdle /\ InitUrlIdle /\ InitClsIdle
    /\ InitPnIdle /\ InitHvIdle /\ InitFeIdle /\ InitCmIdle /\ InitThIdle
    /\ vf = [pc |-> "idle"]

OtherThanVerify ==
    UNCHANGED <<daily_limit, has_template, today, verify_connected, sc, b_vars, hist,
                u_vars, c_vars, pn, hv, fe, cm, th>>

\* lines 637-769 for one page: the value returned, the ground it was returned
\* on, request_count and the file before the call
VerifyCall ==
    /\ vf.pc = "idle"
    /\ request_count <= MaxStored
    /\ \E s \in VerifySignals :
         /\ vf' = [pc |-> "returned", signals |-> s, ground |-> VerifyGround(s),
                   result |-> _verify_connection_sent(s),
                   count0 |-> request_count, ledger0 |-> ledger]
         /\ IF _verify_connection_sent(s) THEN Increment ELSE NoIncrement
    /\ OtherThanVerify

\* back in the caller
VerifyReturn ==
    /\ vf.pc = "returned"
    /\ vf' = [pc |-> "idle"]
    /\ NoIncrement /\ OtherThanVerify

NextVerify == VerifyCall \/ VerifyReturn

SpecVerify == InitVerify /\ [][NextVerify]_vars

\* ================================================================ properties

\* ---------------------------------------------------------------------- C1
\* a batch row classified pending or connected: no click, request_count as
\* it was when the row was reached
C1_BatchRowsUntouched ==
    /\ \A i \in 1..Len(rowlog) :
         rowlog[i].state \in {"pending", "connected"} => ~rowlog[i].dispatched /\ rowlog[i].incs = 0
    /\ (rowlog # <<>> /\ Last(rowlog).state \in {"pending", "connected"}) =>
         request_count = Last(rowlog).count0

C1_CallUntouched == ~Dispatched(sc) /\ request_count = sc.count0

C2_CountWithinLimit == request_count <= daily_limit

\* C2 amended: request_count never exceeds the larger of daily_limit and the
\* count that was loaded from request_count.csv at startup.
C2_CountWithinLimitOrLoaded ==
    request_count <= (IF loaded > daily_limit THEN loaded ELSE daily_limit)

\* the counter has climbed to the limit and a call was refused there
C2_Witness ==
    /\ loaded < daily_limit /\ request_count = daily_limit
    /\ sc.pc = "returned" /\ sc.status = "limit" /\ ~sc.result

ValidCells(file) == {i \in 1..Len(file) : NormalizeUrl(file[i]).valid}

\* daily_limit is 2, request_count started at 0, the file has three profiles,
\* the first two were classified not connected and their requests succeeded
\* (a click was dispatched, the request was counted, the call returned True)
C4_Scenario ==
    /\ b_pc = "done" /\ Connecting(action) /\ daily_limit = 2
    /\ Cardinality(ValidCells(rows)) = 3
    /\ Len(rowlog) >= 2 /\ Len(results) >= 2 /\ rowlog[1].count0 = 0
    /\ \A i \in 1..2 : /\ rowlog[i].state = "not_connected"
                       /\ rowlog[i].dispatched /\ rowlog[i].incs = 1
                       /\ results[i].connect_status

C4_ThirdSkipped(reason) ==
    /\ Len(returned) = 3
    /\ returned[1].note = SentNote /\ returned[2].note = SentNote
    /\ request_count = 2
    /\ Len(rowlog) = 3
    /\ returned[3].profile_url = rowlog[3].url
    /\ returned[3].note = reason
    /\ ~returned[3].connect_status
    /\ ~rowlog[3].navigated /\ ~rowlog[3].dispatched /\ rowlog[3].incs = 0

\* C4 as stated: in that scenario the first two requests are dispatched,
\* request_count ends at 2, and the third profile is skipped with a record
\* whose reason is "daily limit reached", without any navigation.
C4_ThirdSkippedLimitReached == C4_Scenario => C4_ThirdSkipped("daily limit reached")

\* C4 amended: the same, the reason in the record of the third profile being
\* "Skipped due to daily limit".
C4_ThirdSkippedDueToLimit == C4_Scenario => C4_ThirdSkipped("Skipped due to daily limit")

\* the batch of the scenario is over with three records
C4_Witness == C4_Scenario /\ Len(returned) = 3 /\ returned[3].note = SkipNote

\* ---------------------------------------------------------------------- C5
\* the first positive signal in the order connect control, pending, first
\* degree, 2nd/3rd degree, connect option of the More menu, follow;
\* menuConnect: does the connect option of the More menu count on page p
FirstSignal(p, menuConnect) ==
    IF p.connectVis THEN "not_connected"
    ELSE IF p.pendingVis THEN "pending"
    ELSE IF p.firstVis THEN "connected"
    ELSE IF p.degreeVis THEN "not_connected"
    ELSE IF menuConnect THEN "not_connected"
    ELSE IF p.followVis THEN "not_connected"
    ELSE "unknown"

C6_NoSecondSubmit == sc.submit_clicks <= 1

\* ---------------------------------------------------------------------- C7
\* C7: every row that process_profiles_from_csv reached with a valid URL has
\* exactly one record in the returned results.
C7_OneRecordPerRow ==
    b_pc = "done" =>
        /\ Len(returned) = Len(rowlog)
        /\ \A i \in 1..Len(rowlog) : returned[i].profile_url = rowlog[i].url

\* ---------------------------------------------------------------------- C8
\* C8: the returned results hold at most one record per profile URL.
C8_OneRecordPerUrl ==
    b_pc = "done" =>
        \A i, j \in 1..Len(returned) :
            returned[i].profile_url = returned[j].profile_url => i = j

\* ---------------------------------------------------------------------- C9
\* C9: the URL normalisation and the href cleaning give, applied to a result
\* of theirs that they accept, that result again.
C9_Idempotent ==
    /\ (Len(u_norm) = 2 /\ u_norm[2].valid) => u_norm[2].url = u_norm[1].url
    /\ (Len(u_href) = 2 /\ u_href[2].valid) => u_href[2].url = u_href[1].url

\* --------------------------------------------------------------------- C10
HasQueryOrFragment(url) == Contains(url, "?") \/ Contains(url, "#")

\* C10: the URL kept for an accepted input has neither query parameters nor
\* a fragment.
C10_Stripped ==
    /\ (u_norm # <<>> /\ u_norm[1].valid) => ~HasQueryOrFragment(u_norm[1].url)
    /\ (u_href # <<>> /\ u_href[1].valid) => ~HasQueryOrFragment(u_href[1].url)

\* --------------------------------------------------------------------- C11
\* the name the note is to carry: that of the name column, else that of the
\* URL, else "there"
ResolvedName(cell, url) ==
    IF Strip(cell) # <<>> THEN Strip(cell)
    ELSE IF cell = <<>> /\ Title(SplitHead(SplitLast(url, "/in/"), "?")) # <<>>
         THEN Title(SplitHead(SplitLast(url, "/in/"), "?"))
         ELSE <<"there">>

\* C11: the personalized note is the template with {name} replaced by the
\* resolved name, by "there" when no name can be resolved, and never holds
\* the placeholder.
C11_PlaceholderReplaced ==
    pn.pc = "done" =>
        /\ pn.personalized_note = Replace(pn.message_template, ResolvedName(pn.name_cell, pn.profile_url))
        /\ ~Contains(pn.personalized_note, "{name}")

C20_StopsExactlyWhen ==
    hv.pc # "unused" =>
        /\ hv.profiles_processed <= hv.limit \/ hv.profiles_processed = 0
        /\ hv.pages_without_new_profiles <= max_empty_pages
        /\ hv.pc = "page" => (hv.profiles_processed < hv.limit
                              /\ hv.pages_without_new_profiles < max_empty_pages)
        /\ hv.pc = "done" =>
             /\ hv.stop \in {"limit", "empty_pages", "no_next_page"}
             /\ hv.stop = "limit" => hv.profiles_processed >= hv.limit
             /\ hv.stop = "empty_pages" => hv.pages_without_new_profiles = max_empty_pages
             /\ hv.stop = "no_next_page" => hv.profiles_processed < hv.limit
        /\ (hv.scanned /\ hv.new > 0) => hv.pages_without_new_profiles = 0
        /\ (hv.scanned /\ hv.new = 0) => hv.pages_without_new_profiles > 0

\* C20: search_and_save_profiles always terminates, and stops paging exactly
\* when the limit is reached, 3 pages in a row gave no new profile, or there
\* is no next page; a page with a new profile resets the count to 0.
C20_TerminatesAndStops == [](C20_StopsExactlyWhen) /\ <>(hv.pc = "done")

\* the count of empty pages was reset by a page with a new profile, and the
\* search then stopped after 3 pages without one
C20_Witness ==
    /\ hv.pc = "done" /\ hv.stop = "empty_pages" /\ Len(hv.profiles_data) >= 1
    /\ hv.profiles_processed < hv.limit

\* --------------------------------------------------------------------- C13
\* the first of the matched elements that is visible, None when there is none
FirstVisible(elements) ==
    IF \E i \in 1..Len(elements) : elements[i] = "visible"
    THEN CHOOSE i \in 1..Len(elements) :
             elements[i] = "visible" /\ \A j \in 1..(i - 1) : elements[j] # "visible"
    ELSE None

\* C13: _find_element returns the first matched element that is visible and
\* None when there is none (or the query raises), elements whose visibility
\* check raises being skipped; _is_element_visible answers accordingly.
C13_FirstVisibleOrNone ==
    fe.pc \in {"returned", "answered"} =>
        /\ fe.element = IF fe.query_raises THEN None ELSE FirstVisible(fe.elements)
        /\ fe.pc = "answered" => (fe.visible <=> fe.element # None)

\* an element whose visibility check raised was skipped and a later, visible
\* element was returned
C13_Witness ==
    /\ fe.pc = "answered" /\ fe.visible /\ fe.element > 1
    /\ fe.elements[1] = "detached"

\* --------------------------------------------------------------------- C14
\* the techniques that do not raise
Completing(raises) == {m \in 1..Len(Techniques) : ~raises[m]}

\* the number of the first technique that does not raise, of the last
\* technique when all raise
LastTried(raises) ==
    IF Completing(raises) = {} THEN Len(Techniques)
    ELSE CHOOSE m \in Completing(raises) : \A k \in Completing(raises) : m <= k

\* C14: _try_all_click_methods tries the six techniques in their order up to
\* the first that does not raise and returns True then; it returns False for
\* an element only when all six raised.
C14_FirstCompletingTechnique ==
    cm.pc = "returned" =>
        IF cm.element_is_none THEN cm.tried = <<>> /\ ~cm.result
        ELSE /\ cm.tried = SubSeq(Techniques, 1, LastTried(cm.raises))
             /\ cm.result <=> Completing(cm.raises) # {}

\* two techniques raised, the third completed, the call returned True
C14_Witness ==
    /\ cm.pc = "returned" /\ cm.result /\ Len(cm.tried) = 3
    /\ cm.raises[1] /\ cm.raises[2]

\* --------------------------------------------------------------------- C15
\* C15: the More menu that check_connection_status opened is closed when it
\* returns.
C15_MenuClosedOnReturn == c_out # "none" => ~c_menu_open

\* --------------------------------------------------------------------- C16
\* the controls that send or prepare a request
RequestControls == {"connect", "follow", "send", "send_without_note"}

\* C16: check_connection_status clicks no connect, follow, send or
\* send-without-note control and leaves request_count, request_count.csv and
\* _last_request_time as they are.
C16_Observational ==
    /\ [](c_clicked \cap RequestControls = {})
    /\ [][c_out' # c_out => UNCHANGED <<request_count, ledger, th>>]_vars

\* the classifier has opened the More menu, found the connect option in it
\* and closed the menu
C16_Witness ==
    /\ c_out = "not_connected" /\ c_clicked = {"more", "body"}
    /\ c_page.dropConnect /\ request_count = MaxStored

\* --------------------------------------------------------------------- C17
\* C17: a call made at the daily limit returns failure without having
\* waited.
C17_RejectedAtOnce == (th.pc = "returned" /\ th.limited) => th.waited = 0

\* --------------------------------------------------------------------- C18
\* C18: the first click of a call comes at least 15 seconds after the end of
\* the call before.
C18_IntervalFromEnd == (th.pc = "clicked" /\ th.has_prev) => th.now - th.prev_end >= MinInterval

\* --------------------------------------------------------------------- C19
\* C19: a profile whose handling failed or raised has a record, the records
\* made before it are kept in what the batch returns, and the batch stops
\* before the last row for the daily limit only.
C19_FailureIsolated ==
    b_pc = "done" =>
        /\ \A i \in 1..Len(rowlog) : rowlog[i].records = 1
        /\ returned = results
        /\ idx > Len(rows) \/ (returned # <<>> /\ Last(returned).note = SkipNote)

C22_FollowCountedOnEvidence ==
    (sc.pc = "returned" /\ sc.branch = "follow_clicked" /\ (sc.result \/ sc.incs > 0))
        => sc.follow_evidence

\* C23: a call whose last attempt resolved neither a connect control nor a
\* follow control returns False and that attempt does not count.
C23_NoControlFails ==
    (sc.pc = "returned" /\ sc.branch = "no_control") => (~sc.result /\ sc.incs = 0)

\* C24: a call whose last attempt could not click the resolved connect or
\* follow control by any technique returns False and that attempt does not
\* count; it is the last of the max_retries + 1 attempts.
C24_FailedDispatchFails ==
    (sc.pc = "returned" /\ sc.branch \in {"connect_failed", "follow_failed"})
        => (~sc.result /\ sc.incs = 0 /\ sc.attempt = max_retries)

\* C25: a call of send_connection_request makes at most max_retries + 1
\* attempts and ends by returning True or False, never by an exception.
C25_EndsInDone == sc.attempt <= max_retries /\ sc.pc # "raised"

\* C26: the note is typed only in a call that was given a note, on its first
\* attempt and before any premium limit dialog; whenever the note dialog is
\* shown otherwise the call goes to "Send without a note"; the note is typed
\* at most once in a call.
FirstNoteAttempt(f) == f.personalized_note /\ f.attempt = 0 /\ ~f.premium_limit_hit

C26_NoteTypedOnFirstAttemptOnly ==
    [][/\ sc'.notes_typed <= 1
       /\ sc'.notes_typed > sc.notes_typed => FirstNoteAttempt(sc)
       /\ (sc.pc = "note_dialog" /\ sc'.pc \in {"add_note", "send_multi", "send_once"})
             => (sc'.pc = "add_note" <=> FirstNoteAttempt(sc))
       /\ sc'.pc = "enter_note" => sc.pc = "add_note" /\ FirstNoteAttempt(sc)]_vars

C26_Witness ==
    /\ sc.pc = "returned" /\ sc.personalized_note /\ sc.notes_typed = 1
    /\ sc.attempt > 0 /\ sc.submit_clicks = ClickCap

\* C27: the premium limit dialog sends the call back to the connect control at
\* most once in a call; that step clicks the connect control at most once and
\* leads to "Send without a note", to the final verification or to the next
\* attempt; once the dialog was seen the call never looks for "Add a note",
\* never types the note and never takes that step again.
InCall(f) == f.pc \notin {"idle", "enter"}

C30_CountedIsPersisted ==
    (sc.pc = "returned" /\ sc.incs > 0)
        => /\ Persisted(ledger, today) = request_count
           /\ request_count = sc.count0 + 1

C30_Witness ==
    /\ sc.pc = "returned" /\ sc.incs = 1 /\ today = 2
    /\ Len(ledger) = 2 /\ ledger[1].date = 1 /\ ledger[2].date = 2
    /\ ledger[2].count = request_count /\ request_count = 2

\* C28: _verify_connection_sent returns True exactly when one of its signals
\* is positive, the ground being the first positive one in the order pending
\* control, toast, sent text, connect control gone, page source (a weak signal
\* counts when the URL and the page source could be read); on True
\* request_count is one more than before and is the count the file holds for
\* today, on False (also after an exception) count and file are as before.
SignalPending(s) == s.pendingSlot \/ s.pendingBtn
SignalConnectGone(s) == ~s.connectVis /\ s.onProfile /\ ~s.dialogOpen
SignalPageSource(s) ==
    s.onProfile2 /\ ~s.dialogOpen2 /\ (s.srcPattern \/ (~s.connectVis2 /\ s.srcKeyword))
StrongSignal(s) == SignalPending(s) \/ s.toast \/ s.sentText
AnySignal(s) == StrongSignal(s) \/ SignalConnectGone(s) \/ SignalPageSource(s)
NothingRaises(s) == ~s.urlRaises /\ ~s.urlRaises2 /\ ~s.srcRaises

FirstPositive(s) ==
    IF SignalPending(s) THEN "pending"
    ELSE IF s.toast THEN "toast"
    ELSE IF s.sentText THEN "sent_text"
    ELSE IF SignalConnectGone(s) THEN "connect_gone"
    ELSE "page_source"

C29_WeakSignalGuarded ==
    vf.pc = "returned" =>
        /\ vf.ground = "connect_gone"
             => vf.signals.onProfile /\ ~vf.signals.dialogOpen /\ ~StrongSignal(vf.signals)
        /\ vf.ground = "page_source"
             => vf.signals.onProfile2 /\ ~vf.signals.dialogOpen2 /\ ~StrongSignal(vf.signals)

C29_Witness ==
    /\ vf.pc = "returned" /\ vf.result /\ vf.ground = "connect_gone"
    /\ vf.signals.onProfile /\ ~vf.signals.dialogOpen /\ request_count = vf.count0 + 1

\* C31: for a row that check_connection_status classifies as unknown the
\* batch dispatches no click on a connect, follow or submit control and
\* leaves request_count as it was.
C31_UnknownNotDispatched ==
    \A i \in 1..Len(rowlog) :
        rowlog[i].state = "unknown" => ~rowlog[i].dispatched /\ rowlog[i].incs = 0

\* C32: when _try_all_click_methods returns, the element was scrolled into
\* view and a pause was taken once for every technique that was attempted.
C32_ScrollBeforeEachTechnique ==
    (cm.pc = "returned" /\ ~cm.element_is_none)
        => cm.scrolls = Len(cm.tried) /\ cm.pauses = Len(cm.tried)

\* C32 as the code has it: the element is scrolled into view once in a call,
\* before the first technique and not again before the later ones; the pause
\* is taken then, unless the scroll raised.
C32_ScrollOnceBeforeFirst ==
    cm.pc \in {"methods", "returned"} =>
        /\ cm.element_is_none => cm.scrolls = 0 /\ cm.pauses = 0 /\ cm.tried = <<>>
        /\ ~cm.element_is_none
             => cm.scrolls = 1 /\ cm.pauses = (IF cm.scroll_raises THEN 0 ELSE 1)

C32_Witness ==
    /\ cm.pc = "returned" /\ cm.result /\ Len(cm.tried) = 3
    /\ cm.scrolls = 1 /\ cm.pauses = 1

\* C33: at the end of every page with profiles collected so far, the harvest
\* CSV holds exactly the profiles collected so far.
C33_FileHoldsCollected ==
    (hv.pc \in {"page", "done", "returned"} /\ hv.scanned /\ hv.profiles_data # <<>>)
        => hv.file = hv.profiles_data

\* C39: in the paging loop no more profiles are collected than were asked
\* for; the call returns the number of collected profiles when the final save
\* succeeded and 0 otherwise, also for a limit of 0, where no page is scanned.
C39_WithinLimitAndReturn ==
    hv.pc \in {"page", "done", "returned"} =>
        /\ Len(hv.profiles_data) <= hv.limit
        /\ hv.profiles_processed = Len(hv.profiles_data)
        /\ hv.limit = 0 => ~hv.scanned /\ hv.profiles_data = <<>>
        /\ hv.pc = "returned" =>
             /\ (hv.profiles_data # <<>> /\ hv.save_state = "ok")
                   => hv.returned_value = Len(hv.profiles_data) /\ hv.file = hv.profiles_data
             /\ (hv.profiles_data = <<>> \/ hv.save_state # "ok") => hv.returned_value = 0

C39_Witness ==
    /\ hv.pc = "returned" /\ hv.limit = MaxHarvest /\ Len(hv.profiles_data) = MaxHarvest
    /\ hv.save_state = "failed" /\ hv.returned_value = 0 /\ hv.stop = "limit"

\* C34: a call of send_connection_request increments request_count at most
\* once, and the step that increments it is the step that returns True.
C34_AtMostOneIncrement ==
    [][/\ sc'.incs <= 1
       /\ sc'.incs > sc.incs => sc'.pc = "returned" /\ sc'.result
       /\ sc'.pc = "returned" => request_count' = sc'.count0 + sc'.incs]_vars

C34_Witness ==
    /\ sc.pc = "returned" /\ sc.result /\ sc.incs = 1 /\ request_count = sc.count0 + 1
    /\ sc.attempt > 0 /\ sc.premium_limit_hit /\ sc.connect_clicks = ClickCap

\* C35: during a batch the number of rows recorded as "Connection request
\* sent" (successful_count) is the increase of request_count since the first
\* row of the batch.
C35_SuccessesAreIncrements ==
    (b_pc \in {"row", "classify", "send", "done"} /\ rowlog # <<>>)
        => counts.successful = request_count - rowlog[1].count0

\* C36: after midnight the count stored under the new date counts the
\* requests completed on the new date only: the save that creates the row of
\* a new date, in an instance started on an earlier date, stores 1.
C36_NewDayCountsAfresh ==
    [][(today > 1 /\ ~HasRow(ledger, today) /\ HasRow(ledger', today))
          => Persisted(ledger', today) = 1]_vars

\* C37: a save leaves the rows of the other dates as they were, in their
\* order, and leaves exactly one row of today's date, which holds
\* request_count.
OtherRows(file, day) == SelectSeq(file, LAMBDA r : r.date # day)
RowsOf(file, day) == {i \in 1..Len(file) : file[i].date = day}

SkipRecords(q) == {i \in 1..Len(q) : q[i].note = SkipNote}

\* C38: in a batch with action 'connect' or 'both', once records exist the
\* four counters and the daily-limit records partition them:
\* successful + failed + already connected + already pending + the number of
\* 'Skipped due to daily limit' records is the number of records; there is at
\* most one daily-limit record, it is the last record, and the loop has ended.
C38_CountersPartitionRecords ==
    (b_pc \in {"row", "classify", "send", "done"} /\ Connecting(action)) =>
        /\ counts.successful + counts.failed + counts.already_connected
             + counts.already_pending + Cardinality(SkipRecords(results)) = Len(results)
        /\ Cardinality(SkipRecords(results)) <= 1
        /\ \A i \in SkipRecords(results) : i = Len(results) /\ b_pc = "done"

\* a batch that sent a request, found a profile already connected, and then
\* stopped at the daily limit
C38_Witness ==
    /\ b_pc = "done" /\ Connecting(action)
    /\ Len(results) >= 2
    /\ results[Len(results)].note = SkipNote
    /\ counts.successful >= 1
    /\ counts.successful + counts.failed + counts.already_connected + counts.already_pending
         = Len(results) - 1

====
